---- MODULE Spec2Model ----
(***************************************************************************)
(* karyon: the structured task group (core/src/async_util/task_group.rs)   *)
(* and the JSON-RPC server built on it (jsonrpc/src/server/mod.rs).        *)
(*                                                                         *)
(* A TaskGroup owns a Vec of TaskHandlers behind a std Mutex and a shared   *)
(* stop_signal CondWait.  Every spawned task runs                          *)
(*     select(stop_signal.wait(), fut) ; callback(result) ; signal         *)
(* on an executor that may be multi-threaded, so the steps of different    *)
(* tasks, of spawn callers and of the cancel caller interleave freely.     *)
(* A step of the model is one stretch of code between two points at which  *)
(* shared state (the handler list, a CondWait) is read or written.         *)
(*                                                                         *)
(* CondWait itself (core/src/async_util/condwait.rs) is not among the       *)
(* sources at hand.  It is modelled as the boolean flag its callers rely    *)
(* on: signal and broadcast set it, wait returns once it is set, nothing    *)
(* in task_group.rs resets it.  tests::test_task_group_with_executor        *)
(* fixes this reading: its first task signals cancel_flag about 50 ms       *)
(* before TaskHandler::cancel waits on it, and the test terminates.         *)
(***************************************************************************)
EXTENDS Integers, Sequences, FiniteSets, TLC

\* ------------------------------------------------------------------ bounds
\* Handlers ever created in one run (spawn is refused by the guards beyond it).
MaxTasks == 2
TaskIds == 1..MaxTasks
NoTask == 0

\* Connections a server accepts and requests its readers receive in one run.
MaxConns == 1
MaxReqs == 2
Conns == 1..MaxConns
\* The handlers of a server: the accept loop, a writer and a reader for each
\* connection, a task for each request.
SrvIds == 1..(1 + 2 * MaxConns + MaxReqs)

\* The value the user future of task t produces when it completes: each
\* spawn passes a future of its own (future::ready(0) in the tests).
FutValue(t) == t

\* ------------------------------------------------------------- TaskResult
Cancelled == <<"Cancelled">>
Completed(v) == <<"Completed", v>>
NoResult == <<"none">>

\* Either, as produced by select.
Left == <<"Left">>
Right(v) == <<"Right", v>>

\* The futures and callbacks the callers of spawn pass in (those of the unit
\* tests): a future that is ready with a value, one that never completes, one
\* that spawns a never-completing task into the same group and completes;
\* a callback that only inspects its argument, one that spawns as well.
FutKinds == {"ready", "pending", "spawn"}
CbKinds == {"plain", "spawn"}
SpawnArgs ==
    {[fut |-> "ready", cb |-> "plain"],
     [fut |-> "pending", cb |-> "plain"],
     [fut |-> "spawn", cb |-> "plain"],
     [fut |-> "ready", cb |-> "spawn"]}
\* What a task's own future or callback spawns (task_group.rs:196).
NestedArgs == [fut |-> "pending", cb |-> "plain"]

VARIABLES
    tasks,        \* TaskGroup.tasks: the Vec<TaskHandler>, as handler ids
    tasks_lock,   \* the Mutex around it: "free" or the holder
    stop_signal,  \* TaskGroup.stop_signal: the CondWait's flag
    cancel_flag,  \* TaskHandler.cancel_flag of each handler: the CondWait's flag
    pc,           \* where each scheduled task stands in its body
    args,         \* the future and callback each task was spawned with
    parent,       \* the task whose future or callback spawned it (NoTask: a caller outside)
    pushed,       \* whether spawn has pushed the handler yet
    cb_count,     \* how many times each task's callback was invoked
    cb_res,       \* the TaskResult the callback was invoked with
    cpc,          \* where the caller of cancel() stands
    cur,          \* the handler TaskGroup::cancel popped and is cancelling
    fut_out,      \* <<v>> once the user future has completed with v
    born,         \* stop_signal's flag when TaskHandler::new created the task
    \* the connections of a Server (handle_conn's locals)
    queue,        \* ResponseQueue of each connection: responses not yet taken
    hand,         \* <<res>> while the writer holds res between recv and send
    wire,         \* what conn.send has written to each connection
    chan_closed,  \* whether the subscription channel has been closed
    chan,         \* the notifications buffered in the subscription channel
    notified,     \* how many notifications were published on each connection
    \* the server's registry and what its clients send
    config,       \* ServerConfig: services and pubsub_services
    inbox,        \* the messages the clients send, in the order they are received
    reply,        \* <<out>> once handle_request has been applied to inbox[1]
    \* history, written by the observers Hist and HistLive only
    at_begin,     \* the handlers in the list when the latest cancel() began
    quiet,        \* a cancel() has returned, no call of spawn was in progress
                  \* when it did and none was issued since
    during,       \* the tasks whose spawn call overlapped the latest cancel()
    \* history of a connection's writer, written by the observer NoteHist only
    contested,    \* the writer's select found a response and a notification
    overtook,     \* the notifications written while each response was queued
    enqueued      \* the responses pushed to each queue, in the order of the pushes

tgvars == <<tasks, tasks_lock, stop_signal, cancel_flag, pc, args, parent, pushed,
            cb_count, cb_res, cpc, cur, fut_out, born>>
histvars == <<at_begin, quiet, during>>
srvvars == <<queue, hand, wire, chan_closed, chan, notified>>
notehist == <<contested, overtook, enqueued>>
cfgvars == <<config, inbox, reply>>
vars == <<tgvars, histvars, srvvars, notehist, cfgvars>>

\* The handlers created so far, the id of the next one, and whether the run
\* may create another.
Created == {t \in DOMAIN pc : pc[t] # "none"}
NextId == Cardinality(Created) + 1
Room == NextId \in DOMAIN pc
Range(s) == {s[i] : i \in 1..Len(s)}

\* ---------------------------------------------------------------- CondWait
\* wait() returns once the flag is set.
CondWait_ready(flag) == flag = TRUE
\* signal() and broadcast() set the flag.
CondWait_set == TRUE

\* ------------------------------------------------------ TaskGroup (fields)
\* TaskGroup::new / with_executor: an empty list and an unset stop_signal.
\* ids are the handlers the run may create.
TaskGroup_new(ids) ==
    /\ tasks = <<>>
    /\ tasks_lock = "free"
    /\ stop_signal = FALSE
    /\ cancel_flag = [t \in ids |-> FALSE]
    /\ pc = [t \in ids |-> "none"]
    /\ args = [t \in ids |-> NestedArgs]
    /\ parent = [t \in ids |-> NoTask]
    /\ pushed = [t \in ids |-> FALSE]
    /\ cb_count = [t \in ids |-> 0]
    /\ cb_res = [t \in ids |-> NoResult]
    /\ cpc = "idle"
    /\ cur = NoTask
    /\ born = [t \in ids |-> FALSE]
    /\ fut_out = [t \in ids |-> <<>>]
    /\ at_begin = {}
    /\ quiet = FALSE
    /\ during = {}
    /\ overtook = [t \in ids |-> 0]

\* No connection has been accepted: every queue, channel and wire is as
\* handle_conn will create it.
NoConns ==
    /\ queue = [c \in Conns |-> <<>>]
    /\ hand = [c \in Conns |-> <<>>]
    /\ wire = [c \in Conns |-> <<>>]
    /\ chan_closed = [c \in Conns |-> FALSE]
    /\ chan = [c \in Conns |-> <<>>]
    /\ notified = [c \in Conns |-> 0]
    /\ contested = [c \in Conns |-> FALSE]
    /\ enqueued = [c \in Conns |-> <<>>]

\* ----------------------------------------------- messages and dispatch
\* A method string is a sequence of characters; these are the strings up to
\* MaxMethodLen over a letter or two and the separator.
MaxMethodLen == 5
Alphabet == {"a", "b", "."}
Strings == UNION {[1..k -> Alphabet] : k \in 0..MaxMethodLen}
Ids == {1, 2}

\* message.rs is not among the sources at hand; the version string and the
\* error codes are those of JSON-RPC 2.0.  The messages are mod.rs:31-34.
JSONRPC_VERSION == "2.0"
PARSE_ERROR_CODE == -32700
INVALID_REQUEST_ERROR_CODE == -32600
METHOD_NOT_FOUND_ERROR_CODE == -32601
INVALID_REQUEST_ERROR_MSG == "Invalid request"
FAILED_TO_PARSE_ERROR_MSG == "Failed to parse"
METHOD_NOT_FOUND_ERROR_MSG == "Method not found"
UNSUPPORTED_JSONRPC_VERSION == "Unsupported jsonrpc version"

\* An inbound value: one that deserializes into a message::Request, with
\* its jsonrpc, id and method fields, or one that does not.
Request(version, id, method) ==
    [parses |-> TRUE, jsonrpc |-> version, id |-> id, method |-> method]
NotARequest == [parses |-> FALSE, jsonrpc |-> "", id |-> 0, method |-> <<>>]
AllMsgs ==
    {NotARequest} \cup
    {Request(v, i, m) : v \in {JSONRPC_VERSION, "1.0"}, i \in Ids, m \in Strings}

\* message::Response with an error and no result; id is <<>> for None.
ErrorResponse(code, message, id) ==
    [id |-> id, result |-> <<>>, error |-> <<[code |-> code, message |-> message]>>]

\* str::split: the pieces of s between the occurrences of sep, all of them.
RECURSIVE split(_, _)
split(s, sep) ==
    IF \E i \in 1..Len(s) : s[i] = sep
    THEN LET i == CHOOSE k \in 1..Len(s) :
                      s[k] = sep /\ \A j \in 1..(k - 1) : s[j] # sep
         IN <<SubSeq(s, 1, i - 1)>> \o split(SubSeq(s, i + 1, Len(s)), sep)
    ELSE <<s>>

\* sanity_check parsing the method before it checks the version.
sanity_check_method_first(request) ==
    IF ~request.parses
    THEN [kind |-> "ErrRes",
          res |-> ErrorResponse(PARSE_ERROR_CODE, FAILED_TO_PARSE_ERROR_MSG, <<>>)]
    ELSE LET srvc_method == split(request.method, ".") IN
         IF Len(srvc_method) < 2
         THEN [kind |-> "ErrRes",
               res |-> ErrorResponse(INVALID_REQUEST_ERROR_CODE, INVALID_REQUEST_ERROR_MSG,
                                     <<request.id>>)]
         ELSE IF request.jsonrpc # JSONRPC_VERSION
         THEN [kind |-> "ErrRes",
               res |-> ErrorResponse(INVALID_REQUEST_ERROR_CODE,
                                     UNSUPPORTED_JSONRPC_VERSION, <<request.id>>)]
         ELSE [kind |-> "NewReq",
               srvc_name |-> srvc_method[1],
               method_name |-> srvc_method[2],
               msg |-> request]

\* Server::sanity_check.
sanity_check(request) ==
    IF ~request.parses
    THEN [kind |-> "ErrRes",
          res |-> ErrorResponse(PARSE_ERROR_CODE, FAILED_TO_PARSE_ERROR_MSG, <<>>)]
    ELSE IF request.jsonrpc # JSONRPC_VERSION
    THEN [kind |-> "ErrRes",
          res |-> ErrorResponse(INVALID_REQUEST_ERROR_CODE, UNSUPPORTED_JSONRPC_VERSION,
                                <<request.id>>)]
    ELSE LET srvc_method == split(request.method, ".") IN
         IF Len(srvc_method) < 2
         THEN [kind |-> "ErrRes",
               res |-> ErrorResponse(INVALID_REQUEST_ERROR_CODE, INVALID_REQUEST_ERROR_MSG,
                                     <<request.id>>)]
         ELSE [kind |-> "NewReq",
               srvc_name |-> srvc_method[1],
               method_name |-> srvc_method[2],
               msg |-> request]

\* HashMap::get and get_method / get_pubsub_method: <<v>> for Some(v).
get(map, key) == IF key \in DOMAIN map THEN <<map[key]>> ELSE <<>>

\* A service method is called: it returns Ok(value), returns Err(err), or
\* never returns.  The value tells which method produced it; Error's
\* to_response (error.rs, not among the sources at hand) gives an error
\* response with the id.  response is <<>> while the method has not returned.
call(registry, req, behaviour) ==
    [checked |-> req,
     invoked |-> <<[registry |-> registry,
                   srvc_name |-> req.srvc_name,
                   method_name |-> req.method_name]>>,
     response |->
         IF behaviour = "ok"
         THEN <<[id |-> <<req.msg.id>>,
                 result |-> <<<<registry, req.srvc_name, req.method_name>>>>,
                 error |-> <<>>]>>
         ELSE IF behaviour = "err"
         THEN <<ErrorResponse(1, "method error", <<req.msg.id>>)>>
         ELSE <<>>]

\* handle_request looking a method up in the ordinary registry first.
Server_handle_request_plain_first(cfg, msg) ==
    LET req == sanity_check(msg) IN
    IF req.kind = "ErrRes"
    THEN [checked |-> req, invoked |-> <<>>, response |-> <<req.res>>]
    ELSE LET pubsub_service == get(cfg.pubsub_services, req.srvc_name)
             pubsub_method == IF pubsub_service # <<>>
                              THEN get(pubsub_service[1], req.method_name)
                              ELSE <<>>
             service == get(cfg.services, req.srvc_name)
             method == IF service # <<>>
                       THEN get(service[1], req.method_name)
                       ELSE <<>>
         IN IF method # <<>>
            THEN call("service", req, method[1])
            ELSE IF pubsub_method # <<>>
            THEN call("pubsub", req, pubsub_method[1])
            ELSE [checked |-> req,
                  invoked |-> <<>>,
                  response |-> <<ErrorResponse(METHOD_NOT_FOUND_ERROR_CODE,
                                               METHOD_NOT_FOUND_ERROR_MSG,
                                               <<req.msg.id>>)>>]

\* Server::handle_request on the value msg with the registries of cfg: what
\* sanity_check made of msg, the response it returns and the service method
\* it invoked, if any.
Server_handle_request(cfg, msg) ==
    LET req == sanity_check(msg) IN
    IF req.kind = "ErrRes"
    THEN [checked |-> req, invoked |-> <<>>, response |-> <<req.res>>]
    ELSE LET pubsub_service == get(cfg.pubsub_services, req.srvc_name)
             pubsub_method == IF pubsub_service # <<>>
                              THEN get(pubsub_service[1], req.method_name)
                              ELSE <<>>
             service == get(cfg.services, req.srvc_name)
             method == IF service # <<>>
                       THEN get(service[1], req.method_name)
                       ELSE <<>>
         IN IF pubsub_method # <<>>
            THEN call("pubsub", req, pubsub_method[1])
            ELSE IF method # <<>>
            THEN call("service", req, method[1])
            ELSE [checked |-> req,
                  invoked |-> <<>>,
                  response |-> <<ErrorResponse(METHOD_NOT_FOUND_ERROR_CODE,
                                               METHOD_NOT_FOUND_ERROR_MSG,
                                               <<req.msg.id>>)>>]

\* The registries a server may be built with: services named from SvcNames
\* exposing methods named from MethNames, each returning Ok or Err.
SvcNames == {<<"a">>}
MethNames == {<<"a">>, <<"b">>}
Services(behaviours) == UNION {[D -> behaviours] : D \in SUBSET MethNames}
Registries(behaviours) == UNION {[D -> Services(behaviours)] : D \in SUBSET SvcNames}
Configs ==
    [pubsub_services : Registries({"ok", "err"}), services : Registries({"ok", "err"})]
NoServices == [pubsub_services |-> <<>>, services |-> <<>>]

\* No server: nothing registered, nothing received.
NoServer ==
    /\ config = NoServices
    /\ inbox = <<>>
    /\ reply = <<>>

\* A task group on its own, used as the unit tests use it.
Init == TaskGroup_new(TaskIds) /\ NoConns /\ NoServer

\* handle_request applied to one inbound value, for every value and every
\* registry of the bounds.
DispatchInit ==
    /\ TaskGroup_new(TaskIds)
    /\ NoConns
    /\ config \in Configs
    /\ inbox \in {<<m>> : m \in AllMsgs}
    /\ reply = <<>>

dispatch ==
    /\ reply = <<>>
    /\ reply' = <<Server_handle_request(config, inbox[1])>>
    /\ UNCHANGED <<tgvars, histvars, srvvars, notehist, config, inbox>>

DispatchNext == dispatch

DispatchSpec == DispatchInit /\ [][DispatchNext]_vars

\* TaskGroup::len and TaskGroup::is_empty.
len == Len(tasks)
is_empty == tasks = <<>>

\* ------------------------------------------------------------ TaskHandler
\* TaskHandler::new: a fresh cancel_flag and the task handed to the executor,
\* which may start polling it at once.  The handler is not in the list yet.
\* p is the task whose future or callback is calling spawn (NoTask: a caller
\* outside the group) and ppc where p stands while spawn runs.
TaskHandler_new(a, p, ppc) ==
    /\ Room
    /\ pc' = IF p = NoTask
             THEN [pc EXCEPT ![NextId] = "select"]
             ELSE [pc EXCEPT ![NextId] = "select", ![p] = ppc]
    /\ args' = [args EXCEPT ![NextId] = a]
    /\ parent' = [parent EXCEPT ![NextId] = p]
    /\ born' = [born EXCEPT ![NextId] = stop_signal]

\* The arms of the match confused: a lost race reported as a completion.
TaskResultOf_swapped(either) ==
    IF either = Left THEN Completed(0) ELSE Cancelled

\* The match on select's result (task_group.rs:152-155).
TaskResultOf(either) ==
    IF either = Left THEN Cancelled ELSE Completed(either[2])

\* callback(result).await: the callback is entered in the same poll that
\* decided the race.
callback(t, res) ==
    /\ cb_count' = [cb_count EXCEPT ![t] = @ + 1]
    /\ cb_res' = [cb_res EXCEPT ![t] = res]

\* The future's value dropped on the way to the callback.
fut_ready_default(t) ==
    /\ fut_out' = [fut_out EXCEPT ![t] = <<FutValue(t)>>]
    /\ callback(t, TaskResultOf(Right(0)))

\* The user future of t completes with v: select returns Right(v).
fut_done(t, v) ==
    /\ fut_out' = [fut_out EXCEPT ![t] = <<v>>]
    /\ callback(t, TaskResultOf(Right(v)))

\* The user future of a unit-test task completes with its value.
fut_ready(t) == fut_done(t, FutValue(t))

\* A tie going to the user future: with stop_signal set and the future
\* ready in the same poll, the callback is given the future's value.
select_left_ready_wins(t) ==
    /\ CondWait_ready(stop_signal)
    /\ IF args[t].fut = "ready"
       THEN callback(t, TaskResultOf(Right(FutValue(t))))
       ELSE callback(t, TaskResultOf(Left))

\* select returns Left: stop_signal.wait() is ready when the task is polled.
select_left(t) ==
    /\ CondWait_ready(stop_signal)
    /\ callback(t, TaskResultOf(Left))

\* The cancelled path leaving the task without calling the callback.
select_poll_skip_cb(t) ==
    /\ pc[t] = "select"
    /\ IF CondWait_ready(stop_signal)
       THEN /\ cancel_flag' = [cancel_flag EXCEPT ![t] = CondWait_set]
            /\ pc' = [pc EXCEPT ![t] = "done"]
            /\ UNCHANGED <<args, parent, cb_count, cb_res, fut_out, born>>
       ELSE IF args[t].fut = "pending"
       THEN /\ FALSE
            /\ UNCHANGED <<pc, args, parent, cancel_flag, cb_count, cb_res, fut_out, born>>
       ELSE IF args[t].fut = "spawn" /\ Room
       THEN /\ TaskHandler_new(NestedArgs, t, "fut_spawn")
            /\ UNCHANGED <<cancel_flag, cb_count, cb_res, fut_out>>
       ELSE /\ fut_ready(t)
            /\ pc' = [pc EXCEPT ![t] = "cb_run"]
            /\ UNCHANGED <<args, parent, cancel_flag, born>>
    /\ UNCHANGED <<tasks, tasks_lock, stop_signal, pushed, cpc, cur>>

\* select's arms swapped, select(fut, stop_signal.wait()): the user future
\* is polled first and wins when it is ready.
select_poll_fut_first(t) ==
    /\ pc[t] = "select"
    /\ IF args[t].fut = "ready" \/ (args[t].fut = "spawn" /\ ~Room)
       THEN /\ fut_ready(t)
            /\ pc' = [pc EXCEPT ![t] = "cb_run"]
            /\ UNCHANGED <<args, parent, born>>
       ELSE IF args[t].fut = "spawn"
       THEN /\ TaskHandler_new(NestedArgs, t, "fut_spawn")
            /\ UNCHANGED <<cb_count, cb_res, fut_out>>
       ELSE /\ CondWait_ready(stop_signal)
            /\ callback(t, TaskResultOf(Left))
            /\ pc' = [pc EXCEPT ![t] = "cb_run"]
            /\ UNCHANGED <<args, parent, fut_out, born>>
    /\ UNCHANGED <<tasks, tasks_lock, stop_signal, cancel_flag, pushed, cpc, cur>>

\* One poll of select(stop_signal.wait(), fut).  The left arm is polled
\* first: a set stop_signal wins whatever the state of the user future.  With
\* the left arm pending the user future is polled: it is ready with a value,
\* or it calls spawn on the group, or it never is ready: then the poll
\* changes nothing and the task stays parked in select until the broadcast
\* wakes it.
select_poll(t) ==
    /\ pc[t] = "select"
    /\ IF CondWait_ready(stop_signal)
       THEN /\ select_left(t)
            /\ pc' = [pc EXCEPT ![t] = "cb_run"]
            /\ UNCHANGED <<args, parent, fut_out, born>>
       ELSE IF args[t].fut = "pending"
       THEN /\ FALSE
            /\ UNCHANGED <<pc, args, parent, cb_count, cb_res, fut_out, born>>
       ELSE IF args[t].fut = "spawn" /\ Room
       THEN /\ TaskHandler_new(NestedArgs, t, "fut_spawn")
            /\ UNCHANGED <<cb_count, cb_res, fut_out>>
       ELSE /\ fut_ready(t)
            /\ pc' = [pc EXCEPT ![t] = "cb_run"]
            /\ UNCHANGED <<args, parent, born>>
    /\ UNCHANGED <<tasks, tasks_lock, stop_signal, cancel_flag, pushed, cpc, cur>>

\* The task ending without signalling its cancel_flag.
signal_forgotten(t) ==
    /\ cancel_flag' = cancel_flag
    /\ pc' = [pc EXCEPT ![t] = "done"]

\* cancel_flag_c.signal().await, the last statement of the task, right after
\* the callback has returned.
signal(t) ==
    /\ cancel_flag' = [cancel_flag EXCEPT ![t] = CondWait_set]
    /\ pc' = [pc EXCEPT ![t] = "done"]

\* The task signalling its cancel_flag when it enters the callback instead
\* of when the callback has returned.
cb_step_signal_first(t) ==
    /\ pc[t] = "cb_run"
    /\ IF args[t].cb = "spawn" /\ Room
       THEN /\ TaskHandler_new(NestedArgs, t, "cb_spawn")
            /\ cancel_flag' = [cancel_flag EXCEPT ![t] = CondWait_set]
            /\ UNCHANGED fut_out
       ELSE /\ signal(t)
            /\ UNCHANGED <<args, parent, fut_out, born>>
    /\ UNCHANGED <<tasks, tasks_lock, stop_signal, pushed, cb_count, cb_res, cpc,
                   cur>>

\* The callback runs: it returns and the task signals its cancel_flag, or it
\* first calls spawn on the group.
cb_step(t) ==
    /\ pc[t] = "cb_run"
    /\ IF args[t].cb = "spawn" /\ Room
       THEN /\ TaskHandler_new(NestedArgs, t, "cb_spawn")
            /\ UNCHANGED <<cancel_flag, fut_out>>
       ELSE /\ signal(t)
            /\ UNCHANGED <<args, parent, fut_out, born>>
    /\ UNCHANGED <<tasks, tasks_lock, stop_signal, pushed, cb_count, cb_res, cpc,
                   cur>>

\* -------------------------------------------------------- TaskGroup::spawn
\* spawn, first statement, called from outside the group.
spawn_new(a) ==
    /\ TaskHandler_new(a, NoTask, "none")
    /\ UNCHANGED <<tasks, tasks_lock, stop_signal, cancel_flag, pushed, cb_count,
                   cb_res, cpc, cur, fut_out>>

\* spawn keeping the handler out of the list once stop_signal has been
\* broadcast.
spawn_push_untracked(h) ==
    /\ pc[h] # "none"
    /\ ~pushed[h]
    /\ tasks_lock = "free"
    /\ tasks' = IF CondWait_ready(stop_signal) THEN tasks ELSE Append(tasks, h)
    /\ pushed' = [pushed EXCEPT ![h] = TRUE]
    /\ LET p == parent[h] IN
       IF p # NoTask /\ pc[p] = "fut_spawn"
       THEN /\ fut_ready(p)
            /\ pc' = [pc EXCEPT ![p] = "cb_run"]
            /\ UNCHANGED cancel_flag
       ELSE IF p # NoTask /\ pc[p] = "cb_spawn"
       THEN /\ signal(p)
            /\ UNCHANGED <<cb_count, cb_res, fut_out>>
       ELSE UNCHANGED <<pc, cancel_flag, cb_count, cb_res, fut_out>>
    /\ UNCHANGED <<tasks_lock, stop_signal, args, parent, cpc, cur,
                   born>>

\* self.tasks.lock().unwrap().push(task): the guard lives for this statement
\* only.  A future or callback that called spawn goes on in the same poll:
\* the future completes (select returns Right); the callback returns and the
\* task signals.
spawn_push(h) ==
    /\ pc[h] # "none"
    /\ ~pushed[h]
    /\ tasks_lock = "free"
    /\ tasks' = Append(tasks, h)
    /\ pushed' = [pushed EXCEPT ![h] = TRUE]
    /\ LET p == parent[h] IN
       IF p # NoTask /\ pc[p] = "fut_spawn"
       THEN /\ fut_ready(p)
            /\ pc' = [pc EXCEPT ![p] = "cb_run"]
            /\ UNCHANGED cancel_flag
       ELSE IF p # NoTask /\ pc[p] = "cb_spawn"
       THEN /\ signal(p)
            /\ UNCHANGED <<cb_count, cb_res, fut_out>>
       ELSE UNCHANGED <<pc, cancel_flag, cb_count, cb_res, fut_out>>
    /\ UNCHANGED <<tasks_lock, stop_signal, args, parent, cpc, cur,
                   born>>

\* ------------------------------------------------------- TaskGroup::cancel
\* cancel() is called (Server::shutdown, the tests), one call at a time, and
\* runs its first statement: self.stop_signal.broadcast().await
cancel_begin ==
    /\ cpc \in {"idle", "returned"}
    /\ stop_signal' = CondWait_set
    /\ cpc' = "pop"
    /\ UNCHANGED <<tasks, tasks_lock, cancel_flag, pc, args, parent,
                   pushed, cb_count, cb_res, cur, born, fut_out>>

\* The guard kept alive over the await, as in
\* `while let Some(t) = self.tasks.lock().unwrap().pop() { t.cancel().await }`.
cancel_pop_holding ==
    /\ cpc = "pop"
    /\ tasks_lock = "free"
    /\ IF tasks = <<>>
       THEN /\ cpc' = "returned"
            /\ UNCHANGED <<tasks, tasks_lock, cur>>
       ELSE /\ cur' = tasks[Len(tasks)]
            /\ tasks' = SubSeq(tasks, 1, Len(tasks) - 1)
            /\ tasks_lock' = "cancel"
            /\ cpc' = "wait"
    /\ UNCHANGED <<stop_signal, cancel_flag, pc, args, parent, pushed,
                   cb_count, cb_res, born, fut_out>>

\* The drain loop ending one handler early (`while len() > 1`).
cancel_pop_but_one ==
    /\ cpc = "pop"
    /\ tasks_lock = "free"
    /\ IF Len(tasks) <= 1
       THEN /\ cpc' = "returned"
            /\ UNCHANGED <<tasks, cur>>
       ELSE /\ cur' = tasks[Len(tasks)]
            /\ tasks' = SubSeq(tasks, 1, Len(tasks) - 1)
            /\ cpc' = "wait"
    /\ UNCHANGED <<tasks_lock, stop_signal, cancel_flag, pc, args, parent, pushed,
                   cb_count, cb_res, born, fut_out>>

\* let task = self.tasks.lock().unwrap().pop(): the guard is a temporary of
\* this statement and is released before the handler is awaited.  None ends
\* the loop and cancel() returns.
cancel_pop ==
    /\ cpc = "pop"
    /\ tasks_lock = "free"
    /\ IF tasks = <<>>
       THEN /\ cpc' = "returned"
            /\ UNCHANGED <<tasks, cur>>
       ELSE /\ cur' = tasks[Len(tasks)]
            /\ tasks' = SubSeq(tasks, 1, Len(tasks) - 1)
            /\ cpc' = "wait"
    /\ UNCHANGED <<tasks_lock, stop_signal, cancel_flag, pc, args, parent, pushed,
                   cb_count, cb_res, born, fut_out>>

\* TaskHandler::cancel aborting the task without waiting for its cancel_flag.
handler_cancel_nowait ==
    /\ cpc = "wait"
    /\ pc' = IF pc[cur] = "done" THEN pc ELSE [pc EXCEPT ![cur] = "dropped"]
    /\ cur' = NoTask
    /\ cpc' = "pop"
    /\ UNCHANGED <<tasks, tasks_lock, stop_signal, cancel_flag, args, parent,
                   pushed, cb_count, cb_res, fut_out, born>>

\* TaskHandler::cancel: self.cancel_flag.wait().await, then
\* self.task.cancel().await, which drops the scheduled task wherever it
\* stands unless it has run to its end; the handler is consumed.
handler_cancel ==
    /\ cpc = "wait"
    /\ CondWait_ready(cancel_flag[cur])
    /\ pc' = IF pc[cur] = "done" THEN pc ELSE [pc EXCEPT ![cur] = "dropped"]
    /\ cur' = NoTask
    /\ cpc' = "pop"
    /\ UNCHANGED <<tasks, tasks_lock, stop_signal, cancel_flag, args, parent,
                   pushed, cb_count, cb_res, fut_out, born>>

\* ------------------------------------------------------------ specification
TaskStep(t) ==
    \/ select_poll(t)
    \/ cb_step(t)
    \/ spawn_push(t)

CancelStep ==
    \/ cancel_pop
    \/ handler_cancel

\* What the properties need to remember of a step: the list as cancel()
\* found it, whether a cancel() returned with no spawn about, and the tasks
\* whose spawn call was in progress when the latest cancel() began or was
\* issued while it ran.
Hist ==
    /\ at_begin' = IF cpc \in {"idle", "returned"} /\ cpc' = "pop"
                   THEN Range(tasks)
                   ELSE at_begin
    /\ quiet' = IF \E t \in DOMAIN pc : pc[t] = "none" /\ pc'[t] # "none"
                THEN FALSE
                ELSE IF cpc = "pop" /\ cpc' = "returned"
                THEN \A t \in Created : pushed[t]
                ELSE quiet
    /\ during' = IF cpc \in {"idle", "returned"} /\ cpc' = "pop"
                 THEN {t \in Created : ~pushed[t]}
                 ELSE IF cpc \in {"pop", "wait"}
                 THEN during \cup {t \in DOMAIN pc : pc[t] = "none" /\ pc'[t] # "none"}
                 ELSE during
    /\ UNCHANGED notehist
    /\ UNCHANGED cfgvars

\* The same steps, nothing remembered.
HistLive == UNCHANGED <<histvars, notehist, cfgvars>>

Next ==
    \/ \E a \in SpawnArgs : spawn_new(a) /\ Hist /\ UNCHANGED srvvars
    \/ \E t \in TaskIds : select_poll(t) /\ Hist /\ UNCHANGED srvvars
    \/ \E t \in TaskIds : cb_step(t) /\ Hist /\ UNCHANGED srvvars
    \/ \E t \in TaskIds : spawn_push(t) /\ Hist /\ UNCHANGED srvvars
    \/ cancel_begin /\ Hist /\ UNCHANGED srvvars
    \/ cancel_pop /\ Hist /\ UNCHANGED srvvars
    \/ handler_cancel /\ Hist /\ UNCHANGED srvvars

Spec == Init /\ [][Next]_vars

NextLive ==
    \/ \E a \in SpawnArgs : spawn_new(a) /\ HistLive /\ UNCHANGED srvvars
    \/ \E t \in TaskIds : select_poll(t) /\ HistLive /\ UNCHANGED srvvars
    \/ \E t \in TaskIds : cb_step(t) /\ HistLive /\ UNCHANGED srvvars
    \/ \E t \in TaskIds : spawn_push(t) /\ HistLive /\ UNCHANGED srvvars
    \/ cancel_begin /\ HistLive /\ UNCHANGED srvvars
    \/ cancel_pop /\ HistLive /\ UNCHANGED srvvars
    \/ handler_cancel /\ HistLive /\ UNCHANGED srvvars

\* The executor polls every woken task again and the caller of cancel() and
\* of spawn is itself scheduled; whether and when spawn or cancel is called
\* is the caller's choice.  The tasks of a run take finitely many steps
\* between them (MaxTasks tasks, each polled a bounded number of times), so
\* fairness to the tasks together is fairness to each of them.
FairSpec ==
    /\ Init
    /\ [][NextLive]_vars
    /\ WF_vars((\E t \in TaskIds : TaskStep(t)) /\ HistLive /\ UNCHANGED srvvars)
    /\ WF_vars(CancelStep /\ HistLive /\ UNCHANGED srvvars)

TypeOK ==
    /\ tasks \in Seq(DOMAIN pc)
    /\ tasks_lock \in {"free", "cancel"}
    /\ stop_signal \in BOOLEAN
    /\ cpc \in {"idle", "pop", "wait", "returned"}
    /\ cur \in DOMAIN pc \cup {NoTask}
    /\ \A t \in DOMAIN pc :
        pc[t] \in {"none", "select", "fut_spawn", "cb_run", "cb_spawn", "done",
                   "dropped", "loop", "send", "hc_writer", "hc_reader", "nr_push"}
    /\ \A c \in Conns : Len(hand[c]) <= 1

\* ------------------------------------------------------------------ Server
\* The Result<()> a server future completes with.
Ok == <<"Ok">>
Err == <<"Err">>

\* ResponseQueue (server/response_queue.rs) and Channel (server/channel.rs)
\* are not among the sources at hand.  The queue is the unbounded FIFO its
\* users rely on: push appends, recv waits for a value and takes the oldest.
\* Channel::close closes the connection's notification channel for good.
ResponseQueue_push(q, res) == Append(q, res)
ResponseQueue_ready(q) == q # <<>>
ResponseQueue_front(q) == Head(q)
ResponseQueue_rest(q) == Tail(q)
Channel_close == TRUE

\* The subscription channel is the bounded channel handle_conn creates
\* (async_channel::bounded): a Subscription's notify appends while the
\* buffer has room and the channel is open; ch_rx.recv() yields the oldest
\* buffered notification and, once the channel is closed and the buffer
\* drained, the closed error.
CHANNEL_SUBSCRIPTION_BUFFER_SIZE == 100
Channel_send(buf, nt) == Append(buf, nt)
Channel_ready(buf, closed) == buf # <<>> \/ closed
Channel_front(buf) == Head(buf)
Channel_rest(buf) == Tail(buf)

\* select (core/src/async_util/select.rs, not among the sources at hand)
\* polls its first future first: "The select function will prioritize the
\* first future if both futures are ready" (server/mod.rs:135).
select(left_ready, right_ready) ==
    IF left_ready THEN "Left" ELSE IF right_ready THEN "Right" ELSE "Pending"

\* The response handle_request returns for the request handled by task r,
\* as the queue and the wire carry it, and what it says.
Response(r) == <<"response", r>>
ContentOf(r) == Server_handle_request(config, args[r].msg).response[1]
\* The n-th notification published on a connection, as the writer sends it.
Notification(n) == <<"notification", n>>
IsNotification(m) == m[1] = "notification"

\* Notifications published on one connection in one run.
MaxNotes == 2

\* The writer's select with its arms the other way round.
writer_select_swapped(c) ==
    IF Channel_ready(chan[c], chan_closed[c]) THEN "Right"
    ELSE IF ResponseQueue_ready(queue[c]) THEN "Left"
    ELSE "Pending"

\* select(queue_cloned.recv(), ch_rx.recv()) of the writer of connection c.
writer_select(c) ==
    select(ResponseQueue_ready(queue[c]), Channel_ready(chan[c], chan_closed[c]))

\* What Server::start, handle_conn and new_request pass to task_group.spawn:
\* the accept loop; the writer and the reader of connection c, whose
\* on_complete closes the connection's channel; the handler of the request
\* msg.
AcceptArgs == [fut |-> "accept", cb |-> "log", conn |-> 0]
WriterArgs(c) == [fut |-> "writer", cb |-> "close", conn |-> c]
ReaderArgs(c) == [fut |-> "reader", cb |-> "close", conn |-> c]
RequestArgs(c, msg) == [fut |-> "request", cb |-> "log", conn |-> c, msg |-> msg]

TasksOf(kind) == {t \in Created : args[t].fut = kind}
\* Connections accepted and requests received so far.
accepted == Cardinality(TasksOf("writer"))
received == Cardinality(TasksOf("request"))

\* The user future of t is polled: t is running, at the top of its loop, or
\* it is polled out of a suspension and stop_signal.wait(), polled first, was
\* pending.
Polled(t) ==
    \/ pc[t] = "loop"
    \/ pc[t] = "select" /\ ~CondWait_ready(stop_signal)

\* Server::start: the accept loop is handed to task_group.spawn.
start ==
    /\ TasksOf("accept") = {}
    /\ TaskHandler_new(AcceptArgs, NoTask, "none")
    /\ UNCHANGED <<tasks, tasks_lock, stop_signal, cancel_flag, pushed, cb_count,
                   cb_res, cpc, cur, fut_out>>
    /\ UNCHANGED srvvars

\* listener.accept() yields a connection and handle_conn runs up to the
\* TaskHandler::new of its first spawn, that of the writer.
accept_conn(t) ==
    /\ args[t].fut = "accept"
    /\ Polled(t)
    /\ accepted < MaxConns
    /\ TaskHandler_new(WriterArgs(accepted + 1), t, "hc_writer")
    /\ UNCHANGED <<tasks, tasks_lock, stop_signal, cancel_flag, pushed, cb_count,
                   cb_res, cpc, cur, fut_out>>
    /\ UNCHANGED srvvars

\* The request task spawned on the executor without a handler in the group.
server_spawn_push_detached(h) ==
    /\ pc[h] # "none"
    /\ ~pushed[h]
    /\ tasks_lock = "free"
    /\ tasks' = IF args[h].fut = "request" THEN tasks ELSE Append(tasks, h)
    /\ pushed' = [pushed EXCEPT ![h] = TRUE]
    /\ LET p == parent[h] IN
       IF p = NoTask
       THEN UNCHANGED <<pc, args, parent, born>>
       ELSE IF pc[p] = "hc_writer"
       THEN TaskHandler_new(ReaderArgs(args[h].conn), p, "hc_reader")
       ELSE IF pc[p] = "hc_reader"
       THEN /\ \E nxt \in {"select"} \cup (IF accepted < MaxConns THEN {"loop"} ELSE {}) :
                pc' = [pc EXCEPT ![p] = nxt]
            /\ UNCHANGED <<args, parent, born>>
       ELSE /\ pc[p] = "nr_push"
            /\ \E nxt \in {"select"} \cup (IF received < Len(inbox) THEN {"loop"} ELSE {}) :
                pc' = [pc EXCEPT ![p] = nxt]
            /\ UNCHANGED <<args, parent, born>>
    /\ UNCHANGED <<tasks_lock, stop_signal, cancel_flag, cb_count, cb_res, cpc, cur,
                   fut_out>>
    /\ UNCHANGED srvvars

\* spawn dropping from the list, as it pushes, the handlers of the tasks
\* that have finished.
server_spawn_push_reaping(h) ==
    /\ pc[h] # "none"
    /\ ~pushed[h]
    /\ tasks_lock = "free"
    /\ tasks' = Append(SelectSeq(tasks, LAMBDA x : ~cancel_flag[x]), h)
    /\ pushed' = [pushed EXCEPT ![h] = TRUE]
    /\ LET p == parent[h] IN
       IF p = NoTask
       THEN UNCHANGED <<pc, args, parent, born>>
       ELSE IF pc[p] = "hc_writer"
       THEN TaskHandler_new(ReaderArgs(args[h].conn), p, "hc_reader")
       ELSE IF pc[p] = "hc_reader"
       THEN /\ \E nxt \in {"select"} \cup (IF accepted < MaxConns THEN {"loop"} ELSE {}) :
                pc' = [pc EXCEPT ![p] = nxt]
            /\ UNCHANGED <<args, parent, born>>
       ELSE /\ pc[p] = "nr_push"
            /\ \E nxt \in {"select"} \cup (IF received < Len(inbox) THEN {"loop"} ELSE {}) :
                pc' = [pc EXCEPT ![p] = nxt]
            /\ UNCHANGED <<args, parent, born>>
    /\ UNCHANGED <<tasks_lock, stop_signal, cancel_flag, cb_count, cb_res, cpc, cur,
                   fut_out>>
    /\ UNCHANGED srvvars

\* The push that ends a task_group.spawn of the server, and what the spawning
\* task does next in the same poll.  After the writer is pushed handle_conn
\* goes on to the TaskHandler::new of the reader; after the reader is pushed
\* it returns and the accept loop awaits the next connection; after a request
\* task is pushed new_request returns and the reader awaits the next message.
\* An await at the top of a loop finds its event there (the task runs on,
\* "loop") or suspends the task ("select").
server_spawn_push(h) ==
    /\ pc[h] # "none"
    /\ ~pushed[h]
    /\ tasks_lock = "free"
    /\ tasks' = Append(tasks, h)
    /\ pushed' = [pushed EXCEPT ![h] = TRUE]
    /\ LET p == parent[h] IN
       IF p = NoTask
       THEN UNCHANGED <<pc, args, parent, born>>
       ELSE IF pc[p] = "hc_writer"
       THEN TaskHandler_new(ReaderArgs(args[h].conn), p, "hc_reader")
       ELSE IF pc[p] = "hc_reader"
       THEN /\ \E nxt \in {"select"} \cup (IF accepted < MaxConns THEN {"loop"} ELSE {}) :
                pc' = [pc EXCEPT ![p] = nxt]
            /\ UNCHANGED <<args, parent, born>>
       ELSE /\ pc[p] = "nr_push"
            /\ \E nxt \in {"select"} \cup (IF received < Len(inbox) THEN {"loop"} ELSE {}) :
                pc' = [pc EXCEPT ![p] = nxt]
            /\ UNCHANGED <<args, parent, born>>
    /\ UNCHANGED <<tasks_lock, stop_signal, cancel_flag, cb_count, cb_res, cpc, cur,
                   fut_out>>
    /\ UNCHANGED srvvars

\* The reader awaiting the handling of each request before its next recv.
reader_recv_serial(t) ==
    /\ args[t].fut = "reader"
    /\ Polled(t)
    /\ received < Len(inbox)
    /\ \A q \in TasksOf("request") : args[q].conn = args[t].conn => fut_out[q] # <<>>
    /\ TaskHandler_new(RequestArgs(args[t].conn, inbox[received + 1]), t, "nr_push")
    /\ UNCHANGED <<tasks, tasks_lock, stop_signal, cancel_flag, pushed, cb_count,
                   cb_res, cpc, cur, fut_out>>
    /\ UNCHANGED srvvars

\* conn.recv() yields a message and new_request runs up to the
\* TaskHandler::new of its spawn.
reader_recv(t) ==
    /\ args[t].fut = "reader"
    /\ Polled(t)
    /\ received < Len(inbox)
    /\ TaskHandler_new(RequestArgs(args[t].conn, inbox[received + 1]), t, "nr_push")
    /\ UNCHANGED <<tasks, tasks_lock, stop_signal, cancel_flag, pushed, cb_count,
                   cb_res, cpc, cur, fut_out>>
    /\ UNCHANGED srvvars

\* conn.recv() fails: `?` ends the reader's future with the error.
reader_fail(t) ==
    /\ args[t].fut = "reader"
    /\ Polled(t)
    /\ fut_done(t, Err)
    /\ pc' = [pc EXCEPT ![t] = "cb_run"]
    /\ UNCHANGED <<tasks, tasks_lock, stop_signal, cancel_flag, args, parent, pushed,
                   cpc, cur, born>>
    /\ UNCHANGED srvvars

\* The response pushed to the queue twice.
handle_request_twice(t) ==
    /\ args[t].fut = "request"
    /\ Polled(t)
    /\ Server_handle_request(config, args[t].msg).response # <<>>
    /\ queue' = [queue EXCEPT ![args[t].conn] =
                    ResponseQueue_push(ResponseQueue_push(@, Response(t)), Response(t))]
    /\ fut_done(t, Ok)
    /\ signal(t)
    /\ UNCHANGED <<tasks, tasks_lock, stop_signal, args, parent, pushed, cpc, cur,
                   born>>
    /\ UNCHANGED <<hand, wire, chan_closed, chan, notified>>

\* The request task passing an error on as its own result instead of
\* pushing the error response.
handle_request_strict(t) ==
    /\ args[t].fut = "request"
    /\ Polled(t)
    /\ Server_handle_request(config, args[t].msg).response # <<>>
    /\ IF ContentOf(t).error # <<>>
       THEN /\ fut_done(t, Err)
            /\ UNCHANGED queue
       ELSE /\ fut_done(t, Ok)
            /\ queue' = [queue EXCEPT ![args[t].conn] = ResponseQueue_push(@, Response(t))]
    /\ signal(t)
    /\ UNCHANGED <<tasks, tasks_lock, stop_signal, args, parent, pushed, cpc, cur,
                   born>>
    /\ UNCHANGED <<hand, wire, chan_closed, chan, notified>>

\* The future of new_request: handle_request produces the response (the
\* service method, if one is invoked, returns), the response is pushed to
\* the connection's queue, the future ends with Ok; on_complete has nothing
\* to log and the task signals in the same poll.
handle_request(t) ==
    /\ args[t].fut = "request"
    /\ Polled(t)
    /\ Server_handle_request(config, args[t].msg).response # <<>>
    /\ queue' = [queue EXCEPT ![args[t].conn] = ResponseQueue_push(@, Response(t))]
    /\ fut_done(t, Ok)
    /\ signal(t)
    /\ UNCHANGED <<tasks, tasks_lock, stop_signal, args, parent, pushed, cpc, cur,
                   born>>
    /\ UNCHANGED <<hand, wire, chan_closed, chan, notified>>

\* The writer taking the newest response of the queue.
writer_recv_newest(t) ==
    /\ args[t].fut = "writer"
    /\ Polled(t)
    /\ writer_select(args[t].conn) = "Left"
    /\ LET q == queue[args[t].conn] IN
         /\ hand' = [hand EXCEPT ![args[t].conn] = <<q[Len(q)]>>]
         /\ queue' = [queue EXCEPT ![args[t].conn] = SubSeq(q, 1, Len(q) - 1)]
    /\ pc' = [pc EXCEPT ![t] = "send"]
    /\ UNCHANGED <<tasks, tasks_lock, stop_signal, cancel_flag, args, parent, pushed,
                   cb_count, cb_res, cpc, cur, fut_out, born>>
    /\ UNCHANGED <<wire, chan_closed, chan, notified>>

\* The writer's select(queue.recv(), ch_rx.recv()) returns Left(res): the
\* queue held a response.
writer_recv(t) ==
    /\ args[t].fut = "writer"
    /\ Polled(t)
    /\ writer_select(args[t].conn) = "Left"
    /\ hand' = [hand EXCEPT ![args[t].conn] = <<ResponseQueue_front(queue[args[t].conn])>>]
    /\ queue' = [queue EXCEPT ![args[t].conn] = ResponseQueue_rest(@)]
    /\ pc' = [pc EXCEPT ![t] = "send"]
    /\ UNCHANGED <<tasks, tasks_lock, stop_signal, cancel_flag, args, parent, pushed,
                   cb_count, cb_res, cpc, cur, fut_out, born>>
    /\ UNCHANGED <<wire, chan_closed, chan, notified>>

\* The writer sending the notifications of the channel in a batch: after a
\* notification it takes the next one without going back to its select.
writer_send_batch(t) ==
    /\ pc[t] = "send"
    /\ wire' = [wire EXCEPT ![args[t].conn] = Append(@, hand[args[t].conn][1])]
    /\ IF IsNotification(hand[args[t].conn][1]) /\ chan[args[t].conn] # <<>>
       THEN /\ hand' = [hand EXCEPT ![args[t].conn] = <<Channel_front(chan[args[t].conn])>>]
            /\ chan' = [chan EXCEPT ![args[t].conn] = Channel_rest(@)]
            /\ UNCHANGED pc
       ELSE /\ hand' = [hand EXCEPT ![args[t].conn] = <<>>]
            /\ pc' = [pc EXCEPT ![t] =
                         IF writer_select(args[t].conn) # "Pending"
                         THEN "loop" ELSE "select"]
            /\ UNCHANGED chan
    /\ UNCHANGED <<tasks, tasks_lock, stop_signal, cancel_flag, args, parent, pushed,
                   cb_count, cb_res, cpc, cur, fut_out, born>>
    /\ UNCHANGED <<queue, chan_closed, notified>>

\* conn_cloned.send(res) succeeds and the writer loops: it runs on when its
\* select is ready at once, and is suspended in it otherwise.
writer_send(t) ==
    /\ pc[t] = "send"
    /\ wire' = [wire EXCEPT ![args[t].conn] = Append(@, hand[args[t].conn][1])]
    /\ hand' = [hand EXCEPT ![args[t].conn] = <<>>]
    /\ pc' = [pc EXCEPT ![t] =
                 IF writer_select(args[t].conn) # "Pending"
                 THEN "loop" ELSE "select"]
    /\ UNCHANGED <<tasks, tasks_lock, stop_signal, cancel_flag, args, parent, pushed,
                   cb_count, cb_res, cpc, cur, fut_out, born>>
    /\ UNCHANGED <<queue, chan_closed, chan, notified>>

\* conn_cloned.send(res) fails: `?` ends the writer's future with the error.
writer_send_fail(t) ==
    /\ pc[t] = "send"
    /\ hand' = [hand EXCEPT ![args[t].conn] = <<>>]
    /\ fut_done(t, Err)
    /\ pc' = [pc EXCEPT ![t] = "cb_run"]
    /\ UNCHANGED <<tasks, tasks_lock, stop_signal, cancel_flag, args, parent, pushed,
                   cpc, cur, born>>
    /\ UNCHANGED <<queue, wire, chan_closed, chan, notified>>

\* A pub/sub method's subscription publishes on connection c, where a
\* request has been handled: the notification enters the channel's buffer.
\* A writer suspended in its select is woken by it.
notify(c) ==
    /\ \E r \in TasksOf("request") : args[r].conn = c /\ fut_out[r] # <<>>
    /\ ~chan_closed[c]
    /\ Len(chan[c]) < CHANNEL_SUBSCRIPTION_BUFFER_SIZE
    /\ notified[c] < MaxNotes
    /\ notified' = [notified EXCEPT ![c] = @ + 1]
    /\ chan' = [chan EXCEPT ![c] = Channel_send(@, Notification(notified[c] + 1))]
    /\ UNCHANGED tgvars
    /\ UNCHANGED <<queue, hand, wire, chan_closed>>

\* The writer's select returns Right(Ok(nt)): the queue is empty and the
\* channel holds a notification; the writer builds the message to send.
writer_recv_nt(t) ==
    /\ args[t].fut = "writer"
    /\ Polled(t)
    /\ writer_select(args[t].conn) = "Right"
    /\ chan[args[t].conn] # <<>>
    /\ hand' = [hand EXCEPT ![args[t].conn] = <<Channel_front(chan[args[t].conn])>>]
    /\ chan' = [chan EXCEPT ![args[t].conn] = Channel_rest(@)]
    /\ pc' = [pc EXCEPT ![t] = "send"]
    /\ UNCHANGED <<tasks, tasks_lock, stop_signal, cancel_flag, args, parent, pushed,
                   cb_count, cb_res, cpc, cur, fut_out, born>>
    /\ UNCHANGED <<queue, wire, chan_closed, notified>>

\* The writer taking the error of the closed channel for nothing to send
\* and going back to its select.
writer_chan_closed_retry(t) ==
    /\ args[t].fut = "writer"
    /\ Polled(t)
    /\ writer_select(args[t].conn) = "Right"
    /\ chan[args[t].conn] = <<>>
    /\ pc' = [pc EXCEPT ![t] = "select"]
    /\ UNCHANGED <<tasks, tasks_lock, stop_signal, cancel_flag, args, parent, pushed,
                   cb_count, cb_res, cpc, cur, fut_out, born>>
    /\ UNCHANGED srvvars

\* The writer's select returns Right(Err): the queue is empty, the channel
\* is closed and its buffer drained; `notification?` ends the writer's
\* future.
writer_chan_closed(t) ==
    /\ args[t].fut = "writer"
    /\ Polled(t)
    /\ writer_select(args[t].conn) = "Right"
    /\ chan[args[t].conn] = <<>>
    /\ fut_done(t, Err)
    /\ pc' = [pc EXCEPT ![t] = "cb_run"]
    /\ UNCHANGED <<tasks, tasks_lock, stop_signal, cancel_flag, args, parent, pushed,
                   cpc, cur, born>>
    /\ UNCHANGED srvvars

\* A suspended server task is polled with stop_signal broadcast: select
\* returns Left and the future is dropped where it stands, a writer's with
\* the response it was sending.  The on_complete of the accept loop and of a
\* request task has nothing to do for Cancelled and the task signals in the
\* same poll; that of a writer or a reader has the channel to close.
server_cancelled(t) ==
    /\ args[t].fut \in {"accept", "writer", "reader", "request"}
    /\ pc[t] \in {"select", "send"}
    /\ select_left(t)
    /\ IF args[t].cb = "close"
       THEN /\ pc' = [pc EXCEPT ![t] = "cb_run"]
            /\ UNCHANGED cancel_flag
       ELSE signal(t)
    /\ hand' = IF args[t].fut = "writer"
               THEN [hand EXCEPT ![args[t].conn] = <<>>]
               ELSE hand
    /\ UNCHANGED <<tasks, tasks_lock, stop_signal, args, parent, pushed, cpc, cur,
                   fut_out, born>>
    /\ UNCHANGED <<queue, wire, chan_closed, chan, notified>>

\* on_complete closing the channel only when the task ended with an error.
on_complete_err_only(t) ==
    /\ pc[t] = "cb_run"
    /\ args[t].cb = "close"
    /\ chan_closed' = [chan_closed EXCEPT ![args[t].conn] =
                           IF cb_res[t] = Completed(Err) THEN Channel_close ELSE @]
    /\ signal(t)
    /\ UNCHANGED <<tasks, tasks_lock, stop_signal, args, parent, pushed, cb_count,
                   cb_res, cpc, cur, fut_out, born>>
    /\ UNCHANGED <<queue, hand, wire, chan, notified>>

\* The on_complete of a writer or a reader: chan.close(); then the task
\* signals its cancel_flag.
on_complete(t) ==
    /\ pc[t] = "cb_run"
    /\ args[t].cb = "close"
    /\ chan_closed' = [chan_closed EXCEPT ![args[t].conn] = Channel_close]
    /\ signal(t)
    /\ UNCHANGED <<tasks, tasks_lock, stop_signal, args, parent, pushed, cb_count,
                   cb_res, cpc, cur, fut_out, born>>
    /\ UNCHANGED <<queue, hand, wire, chan, notified>>

ServerTaskStep(t) ==
    \/ accept_conn(t)
    \/ server_spawn_push(t)
    \/ reader_recv(t)
    \/ reader_fail(t)
    \/ handle_request(t)
    \/ writer_recv(t)
    \/ writer_recv_nt(t)
    \/ writer_send(t)
    \/ writer_send_fail(t)
    \/ writer_chan_closed(t)
    \/ server_cancelled(t)
    \/ on_complete(t)

\* The steps a task takes once the executor polls it, whatever its peer
\* does: all but the arrival of a connection or a message and the failure
\* of a recv at an await the task is suspended in.  A send in progress ends,
\* well or badly.
ServerProgress(t) ==
    \/ server_spawn_push(t)
    \/ handle_request(t)
    \/ writer_recv(t)
    \/ writer_recv_nt(t)
    \/ writer_send(t)
    \/ writer_send_fail(t)
    \/ writer_chan_closed(t)
    \/ server_cancelled(t)
    \/ on_complete(t)
    \/ pc[t] = "loop" /\ (accept_conn(t) \/ reader_recv(t) \/ reader_fail(t))

\* The registry of the server of the runs below: a pub/sub service "a" with
\* a method "b"; an ordinary service "a" whose method "a" never returns, and
\* an ordinary service "b" with a failing method "a" and a method "b".
SrvConfig ==
    [pubsub_services |-> (<<"a">> :> (<<"b">> :> "ok")),
     services |-> (<<"a">> :> (<<"a">> :> "hang" @@ <<"b">> :> "ok")) @@
                  (<<"b">> :> (<<"a">> :> "err" @@ <<"b">> :> "ok"))]

\* The clients send well-formed requests for "b.b".
PlainInbox == [i \in 1..MaxReqs |-> Request(JSONRPC_VERSION, i, <<"b", ".", "b">>)]

\* The kinds of value a client may send to this server: not a request; a
\* request of another version; one whose method has no "."; one for a method
\* nobody registered; for the pub/sub method; for the method that never
\* returns; for the failing method; for the plain method.
SrvMsgs ==
    {NotARequest,
     Request("1.0", 1, <<"a", ".", "b">>),
     Request(JSONRPC_VERSION, 1, <<"a">>),
     Request(JSONRPC_VERSION, 1, <<"b", ".">>),
     Request(JSONRPC_VERSION, 1, <<"a", ".", "b">>),
     Request(JSONRPC_VERSION, 1, <<"a", ".", "a">>),
     Request(JSONRPC_VERSION, 1, <<"b", ".", "a">>),
     Request(JSONRPC_VERSION, 1, <<"b", ".", "b">>)}

\* A server whose clients send any MaxReqs of these values.
ClientInit ==
    /\ TaskGroup_new(SrvIds)
    /\ NoConns
    /\ config = SrvConfig
    /\ inbox \in [1..MaxReqs -> SrvMsgs]
    /\ reply = <<>>

ServerInit ==
    /\ TaskGroup_new(SrvIds)
    /\ NoConns
    /\ config = SrvConfig
    /\ inbox = PlainInbox
    /\ reply = <<>>

\* The properties of a server need no history.
ServerNext ==
    \/ start /\ HistLive
    \/ \E t \in SrvIds : accept_conn(t) /\ HistLive
    \/ \E t \in SrvIds : server_spawn_push(t) /\ HistLive
    \/ \E t \in SrvIds : reader_recv(t) /\ HistLive
    \/ \E t \in SrvIds : reader_fail(t) /\ HistLive
    \/ \E t \in SrvIds : handle_request(t) /\ HistLive
    \/ \E t \in SrvIds : writer_recv(t) /\ HistLive
    \/ \E t \in SrvIds : writer_send(t) /\ HistLive
    \/ \E t \in SrvIds : writer_send_fail(t) /\ HistLive
    \/ \E t \in SrvIds : writer_chan_closed(t) /\ HistLive
    \/ \E t \in SrvIds : server_cancelled(t) /\ HistLive
    \/ \E t \in SrvIds : on_complete(t) /\ HistLive
    \/ cancel_begin /\ HistLive /\ UNCHANGED srvvars
    \/ cancel_pop /\ HistLive /\ UNCHANGED srvvars
    \/ handler_cancel /\ HistLive /\ UNCHANGED srvvars

\* A server: start, connections, requests, and shutdown (Server::shutdown is
\* TaskGroup::cancel on the server's group).
ServerSpec == ServerInit /\ [][ServerNext]_vars

\* The executor polls every woken task again; the caller of shutdown is
\* scheduled; clients connect, send and disconnect as they please.  The
\* tasks of a run take finitely many steps between them (MaxConns
\* connections, MaxReqs messages), so fairness to the tasks together is
\* fairness to each of them.
ServerFairSpec ==
    /\ ServerInit
    /\ [][ServerNext]_vars
    /\ WF_vars((\E t \in SrvIds : ServerProgress(t)) /\ HistLive)
    /\ WF_vars(CancelStep /\ HistLive /\ UNCHANGED srvvars)

\* What the properties of a writer need to remember of a step: whether a
\* select of the writer found both a response and a notification, and how
\* many notifications went out on the wire while each response was queued.
NoteHist ==
    /\ contested' =
          [c \in Conns |->
              \/ contested[c]
              \/ /\ hand[c] = <<>> /\ hand'[c] # <<>>
                 /\ queue[c] # <<>> /\ chan[c] # <<>>]
    /\ overtook' =
          [r \in DOMAIN overtook |->
              IF \E c \in Conns :
                     /\ Len(wire'[c]) > Len(wire[c])
                     /\ IsNotification(wire'[c][Len(wire'[c])])
                     /\ Response(r) \in Range(queue[c])
              THEN overtook[r] + 1
              ELSE overtook[r]]
    /\ enqueued' =
          [c \in Conns |->
              IF Len(queue'[c]) > Len(queue[c])
              THEN enqueued[c] \o SubSeq(queue'[c], Len(queue[c]) + 1, Len(queue'[c]))
              ELSE enqueued[c]]
    /\ UNCHANGED histvars
    /\ UNCHANGED cfgvars

PubSubNext ==
    \/ start /\ NoteHist
    \/ \E t \in SrvIds : accept_conn(t) /\ NoteHist
    \/ \E t \in SrvIds : server_spawn_push(t) /\ NoteHist
    \/ \E t \in SrvIds : reader_recv(t) /\ NoteHist
    \/ \E t \in SrvIds : reader_fail(t) /\ NoteHist
    \/ \E t \in SrvIds : handle_request(t) /\ NoteHist
    \/ \E c \in Conns : notify(c) /\ NoteHist
    \/ \E t \in SrvIds : writer_recv(t) /\ NoteHist
    \/ \E t \in SrvIds : writer_recv_nt(t) /\ NoteHist
    \/ \E t \in SrvIds : writer_send(t) /\ NoteHist
    \/ \E t \in SrvIds : writer_send_fail(t) /\ NoteHist
    \/ \E t \in SrvIds : writer_chan_closed(t) /\ NoteHist
    \/ \E t \in SrvIds : server_cancelled(t) /\ NoteHist
    \/ \E t \in SrvIds : on_complete(t) /\ NoteHist
    \/ cancel_begin /\ UNCHANGED srvvars /\ NoteHist
    \/ cancel_pop /\ UNCHANGED srvvars /\ NoteHist
    \/ handler_cancel /\ UNCHANGED srvvars /\ NoteHist

\* A server whose pub/sub subscriptions publish notifications.
PubSubSpec == ServerInit /\ [][PubSubNext]_vars

\* The steps of a server on which shutdown() is not called and whose
\* subscriptions publish nothing.
ServerRunNext ==
    \/ start /\ NoteHist
    \/ \E t \in SrvIds : accept_conn(t) /\ NoteHist
    \/ \E t \in SrvIds : server_spawn_push(t) /\ NoteHist
    \/ \E t \in SrvIds : reader_recv(t) /\ NoteHist
    \/ \E t \in SrvIds : reader_fail(t) /\ NoteHist
    \/ \E t \in SrvIds : handle_request(t) /\ NoteHist
    \/ \E t \in SrvIds : writer_recv(t) /\ NoteHist
    \/ \E t \in SrvIds : writer_send(t) /\ NoteHist
    \/ \E t \in SrvIds : writer_send_fail(t) /\ NoteHist
    \/ \E t \in SrvIds : writer_chan_closed(t) /\ NoteHist
    \/ \E t \in SrvIds : on_complete(t) /\ NoteHist

\* A running server receiving values of every kind.
ClientSpec == ClientInit /\ [][ServerRunNext]_vars

\* The same under the scheduling of ServerFairSpec, with a server that is
\* started and clients that connect and send what they have to send: a
\* reader waiting in conn.recv() gets the next value of the inbox, unless
\* the transport fails.
ClientFairSpec ==
    /\ ClientInit
    /\ [][ServerRunNext]_vars
    /\ WF_vars((\E t \in SrvIds : ServerProgress(t)) /\ NoteHist)
    /\ WF_vars((start \/ \E t \in SrvIds : reader_recv(t) \/ accept_conn(t)) /\ NoteHist)

\* The steps of a server on which shutdown() is not called.
PubSubRunNext ==
    \/ start /\ NoteHist
    \/ \E t \in SrvIds : accept_conn(t) /\ NoteHist
    \/ \E t \in SrvIds : server_spawn_push(t) /\ NoteHist
    \/ \E t \in SrvIds : reader_recv(t) /\ NoteHist
    \/ \E t \in SrvIds : reader_fail(t) /\ NoteHist
    \/ \E t \in SrvIds : handle_request(t) /\ NoteHist
    \/ \E c \in Conns : notify(c) /\ NoteHist
    \/ \E t \in SrvIds : writer_recv(t) /\ NoteHist
    \/ \E t \in SrvIds : writer_recv_nt(t) /\ NoteHist
    \/ \E t \in SrvIds : writer_send(t) /\ NoteHist
    \/ \E t \in SrvIds : writer_send_fail(t) /\ NoteHist
    \/ \E t \in SrvIds : writer_chan_closed(t) /\ NoteHist
    \/ \E t \in SrvIds : on_complete(t) /\ NoteHist

\* A running server under the scheduling of ServerFairSpec; when a
\* subscription publishes is up to the service.  A writer that shutdown()
\* cancels has ended, and until it is cancelled it takes the steps it takes
\* here.
PubSubFairSpec ==
    /\ ServerInit
    /\ [][PubSubRunNext]_vars
    /\ WF_vars((\E t \in SrvIds : ServerProgress(t)) /\ NoteHist)

\* ------------------------------------------------------------- properties
\* The callback of h has been called and has returned, and h has signalled.
Finished(h) ==
    /\ cb_count[h] = 1
    /\ pc[h] = "done"
    /\ cancel_flag[h]

CancelRunning == cpc \in {"pop", "wait"}

\* C1: when cancel() has returned, every handler that was in the list when
\* it began has signalled its cancel_flag: the callback of its task has been
\* called, has returned, and is not executing.
C1_CancelAwaitsHandlers ==
    cpc = "returned" => \A h \in at_begin : Finished(h)

\* cancel() has returned from a list of two handlers, one of a task that had
\* to be cancelled.
C1_Witness ==
    /\ cpc = "returned"
    /\ Cardinality(at_begin) = 2
    /\ \E h \in at_begin : cb_res[h] = Cancelled /\ Finished(h)

C4_PendingIsCancelled ==
    /\ \A t \in Created :
          args[t].fut = "pending" /\ cb_count[t] >= 1 => cb_res[t] = Cancelled
    /\ cpc = "returned" =>
          \A h \in at_begin :
              args[h].fut = "pending" => cb_count[h] = 1 /\ cb_res[h] = Cancelled

C4_Witness ==
    /\ cpc = "returned"
    /\ \E h \in at_begin :
          args[h].fut = "pending" /\ parent[h] = NoTask /\ cb_res[h] = Cancelled

\* C5: once the user future has completed with v, the callback has been
\* called with Completed(v), and a later cancel() does not change that.
C5_CompletedCarriesValue ==
    \A t \in Created :
        fut_out[t] # <<>> =>
            cb_count[t] = 1 /\ cb_res[t] = Completed(fut_out[t][1])

\* A future completed, then cancel() was called and has returned.
C5_Witness ==
    /\ cpc = "returned"
    /\ \E h \in at_begin :
          fut_out[h] = <<FutValue(h)>> /\ cb_res[h] = Completed(FutValue(h))

\* C6: the list's lock is not held while cancel() waits for a handler, so a
\* spawn called by a task's future or callback can push; and when cancel()
\* returns, the task spawned by a handler it found in the list has had its
\* callback called with Cancelled.
C6_NestedSpawnNoDeadlock ==
    /\ cpc = "wait" => tasks_lock = "free"
    /\ \A h \in Created : (cpc = "wait" /\ ~pushed[h]) => ENABLED spawn_push(h)
    /\ cpc = "returned" =>
          \A n \in Created :
              parent[n] \in at_begin =>
                  pushed[n] /\ cb_res[n] = Cancelled /\ Finished(n)

\* cancel() has returned after draining a task spawned, while it ran, by the
\* callback or future of a handler it found in the list.
C6_Witness ==
    /\ cpc = "returned"
    /\ \E n \in Created :
          /\ parent[n] \in at_begin
          /\ n \notin at_begin
          /\ cb_res[n] = Cancelled

C8_SecondCancelNoOp ==
    /\ [](quiet => tasks = <<>> /\ cpc \in {"pop", "returned"})
    /\ [][quiet /\ quiet' =>
            /\ cb_count' = cb_count
            /\ cb_res' = cb_res
            /\ pc' = pc
            /\ tasks' = tasks
            /\ cpc = "pop" => cpc' = "returned"]_vars

\* The second cancel() is running on a group whose tasks the first drained.
C8_Witness ==
    /\ quiet
    /\ cpc = "pop"
    /\ Created = TaskIds

\* The accept loop's handler has been popped off the list by a drain.
AcceptDrained == \E a \in TasksOf("accept") : pushed[a] /\ a \notin Range(tasks)

\* C9: when a shutdown() that found the accept loop's handler in the list
\* (or got it during its drain) has returned, no task of the server is
\* running: the accept loop, every writer, reader and request task ever
\* created has had its callback called, has signalled and is off the list.
C9_ShutdownCancelsServerTasks ==
    (cpc = "returned" /\ AcceptDrained) =>
        /\ tasks = <<>>
        /\ \A t \in Created : pushed[t] /\ Finished(t)

\* shutdown() has returned having cancelled the accept loop, a writer, a
\* reader and a request task that were all still running.
C9_Witness ==
    /\ cpc = "returned"
    /\ AcceptDrained
    /\ \A kind \in {"accept", "writer", "reader", "request"} :
          \E t \in TasksOf(kind) : cb_res[t] = Cancelled /\ ~born[t]

\* The reader received the message that task r handles.
IsRequest(r) == pc[r] # "none" /\ args[r].fut = "request"

\* The connection task t serves, if it serves one.
ConnOf(t) == IF "conn" \in DOMAIN args[t] THEN args[t].conn ELSE NoTask

\* How many times messages equal to m occur in the sequence s.
Count(s, m) == Cardinality({i \in 1..Len(s) : s[i] = m})

\* The responses to request r written to connection c, and those still in
\* the server: in the queue or in the writer's hand.
Responses(r, c) == Count(wire[c], Response(r))
Pending(r, c) == Count(queue[c], Response(r)) + Count(hand[c], Response(r))

IsResponse(m) == m[1] = "response"
ResponsesIn(s) == SelectSeq(s, IsResponse)
NotificationsIn(s) == SelectSeq(s, IsNotification)

\* C11: a select of the writer that finds both a response in the queue and
\* a notification in the channel takes the oldest response and leaves the
\* channel as it is, and the message the writer then puts on the wire is
\* the one it took.
C11_WriterPriority ==
    /\ [][\A c \in Conns :
            (hand[c] = <<>> /\ hand'[c] # <<>> /\ queue[c] # <<>> /\ chan[c] # <<>>) =>
                /\ hand'[c] = <<Head(queue[c])>>
                /\ IsResponse(hand'[c][1])
                /\ chan'[c] = chan[c]]_vars
    /\ [][\A c \in Conns :
            wire'[c] # wire[c] =>
                hand[c] # <<>> /\ wire'[c] = Append(wire[c], hand[c][1])]_vars

\* A select found both ready, and the wire carries a response followed by a
\* notification.
C11_Witness ==
    \E c \in Conns :
        /\ contested[c]
        /\ \E i \in 1..(Len(wire[c]) - 1) :
              IsResponse(wire[c][i]) /\ IsNotification(wire[c][i + 1])

\* The writer of connection c has ended: its future returned an error or
\* lost the race to stop_signal.
WriterEnded(c) == \E w \in TasksOf("writer") : args[w].conn = c /\ cb_count[w] >= 1

\* C12: at most one notification is written while a response waits in the
\* queue, and only one the writer already held when the response was
\* pushed: while the writer holds a notification, no queued response has
\* been overtaken yet.  And every fair run reaches a point from which each
\* response pushed to a queue has been written, unless the connection's
\* writer has ended (a send failed, the channel was closed, or shutdown
\* cancelled it), however many notifications are published.
C12_ResponsesNotStarved ==
    /\ [](\A r \in SrvIds : overtook[r] <= 1)
    /\ [](\A c \in Conns : \A r \in SrvIds :
            (/\ hand[c] # <<>>
             /\ IsNotification(hand[c][1])
             /\ Response(r) \in Range(queue[c])) => overtook[r] = 0)
    /\ <>[](\A r \in SrvIds : \A c \in Conns :
               Response(r) \in Range(enqueued[c]) =>
                   Responses(r, c) = 1 \/ WriterEnded(c))

\* A response was pushed while the writer was sending a notification and
\* another notification was published before the writer's next select: that
\* select found both, the response was written after one notification only.
C12_Witness ==
    \E c \in Conns : \E r \in SrvIds :
        /\ overtook[r] = 1
        /\ contested[c]
        /\ notified[c] = MaxNotes
        /\ Responses(r, c) = 1
        /\ \E i \in 1..(Len(wire[c]) - 1) :
              wire[c][i] = Response(r) /\ IsNotification(wire[c][i + 1])

IsPrefix(s, t) == Len(s) <= Len(t) /\ SubSeq(t, 1, Len(s)) = s

\* C13: on every connection the responses on the wire are, in order, the
\* first responses pushed to the queue, each once, and the notifications on
\* the wire are, in order, the first notifications published, each once;
\* nothing else is on the wire.
C13_OrderWithinSource ==
    \A c \in Conns :
        /\ IsPrefix(ResponsesIn(wire[c]), enqueued[c])
        /\ \A i \in 1..Len(NotificationsIn(wire[c])) :
              NotificationsIn(wire[c])[i] = Notification(i)
        /\ Len(ResponsesIn(wire[c])) + Len(NotificationsIn(wire[c])) = Len(wire[c])

\* Two responses, pushed in the reverse of the order their requests arrived
\* in, and two notifications are on the wire, a notification between the
\* two responses; one select found both sources ready.
C13_Witness ==
    \E c \in Conns :
        /\ Len(wire[c]) = 4
        /\ IsResponse(wire[c][1])
        /\ IsNotification(wire[c][2])
        /\ IsResponse(wire[c][3])
        /\ Len(NotificationsIn(wire[c])) = 2
        /\ ResponsesIn(wire[c]) = enqueued[c]
        /\ enqueued[c][1][2] > enqueued[c][2][2]
        /\ contested[c]

\* C15: handle_request answers a value that deserializes into a Request
\* with a jsonrpc field other than "2.0" with the error -32600 "Unsupported
\* jsonrpc version", the request's id and no result, whatever the method
\* string and the registries are, and invokes no service method.
C15_UnsupportedVersion ==
    (reply # <<>> /\ inbox[1].parses /\ inbox[1].jsonrpc # "2.0") =>
        /\ reply[1].response =
              <<[id |-> <<inbox[1].id>>,
                 result |-> <<>>,
                 error |-> <<[code |-> -32600,
                             message |-> "Unsupported jsonrpc version"]>>]>>
        /\ reply[1].invoked = <<>>

\* A request of version "1.0" for a method string without a dot, answered.
C15_Witness ==
    /\ reply # <<>>
    /\ inbox[1].parses
    /\ inbox[1].jsonrpc = "1.0"
    /\ inbox[1].method = <<"a">>
    /\ inbox[1].id = 2
    /\ reply[1].response[1].id = <<2>>

\* The position of the first "." of s, 0 if it has none.
FirstDot(s) ==
    IF \E i \in 1..Len(s) : s[i] = "."
    THEN CHOOSE i \in 1..Len(s) : s[i] = "." /\ \A j \in 1..(i - 1) : s[j] # "."
    ELSE 0

\* C16: for a request of version "2.0", the method string is cut at its
\* first "."; if it has no "." or nothing before or nothing after it the
\* request is answered with -32600 "Invalid request" and its id; otherwise
\* it goes to dispatch with the service named before the first "." and the
\* method named by everything after it.
C16_MethodParsing ==
    (reply # <<>> /\ inbox[1].parses /\ inbox[1].jsonrpc = "2.0") =>
        LET m == inbox[1].method
            i == FirstDot(m)
        IN IF i = 0 \/ i = 1 \/ i = Len(m)
           THEN /\ reply[1].checked.kind = "ErrRes"
                /\ reply[1].invoked = <<>>
                /\ reply[1].response =
                      <<[id |-> <<inbox[1].id>>,
                         result |-> <<>>,
                         error |-> <<[code |-> -32600, message |-> "Invalid request"]>>]>>
           ELSE /\ reply[1].checked.kind = "NewReq"
                /\ reply[1].checked.srvc_name = SubSeq(m, 1, i - 1)
                /\ reply[1].checked.method_name = SubSeq(m, i + 1, Len(m))

\* Whether the registry binds the method m of the service s.
Bound(registry, s, m) == s \in DOMAIN registry /\ m \in DOMAIN registry[s]

\* C17: a request that sanity_check passes on as naming the method m of the
\* service s invokes the pub/sub method bound to it and nothing else if
\* there is one; the ordinary method bound to it and nothing else if there is
\* one and no pub/sub method, also when a pub/sub service s exists without
\* m; and no method if there is neither, the response then being -32601
\* "Method not found" with the request's id.
C17_DispatchOrder ==
    (reply # <<>> /\ reply[1].checked.kind = "NewReq") =>
        LET s == reply[1].checked.srvc_name
            m == reply[1].checked.method_name
        IN /\ Bound(config.pubsub_services, s, m) =>
                 reply[1].invoked =
                     <<[registry |-> "pubsub", srvc_name |-> s, method_name |-> m]>>
           /\ (~Bound(config.pubsub_services, s, m) /\ Bound(config.services, s, m)) =>
                 reply[1].invoked =
                     <<[registry |-> "service", srvc_name |-> s, method_name |-> m]>>
           /\ (~Bound(config.pubsub_services, s, m) /\ ~Bound(config.services, s, m)) =>
                 /\ reply[1].invoked = <<>>
                 /\ reply[1].response =
                       <<[id |-> <<inbox[1].id>>,
                          result |-> <<>>,
                          error |-> <<[code |-> -32601, message |-> "Method not found"]>>]>>

\* "a.b" is bound in both registries and the request for it was answered by
\* the pub/sub method.
C17_Witness ==
    /\ reply # <<>>
    /\ inbox[1].parses
    /\ inbox[1].jsonrpc = "2.0"
    /\ inbox[1].method = <<"a", ".", "b">>
    /\ Bound(config.pubsub_services, <<"a">>, <<"b">>)
    /\ Bound(config.services, <<"a">>, <<"b">>)
    /\ reply[1].invoked # <<>>
    /\ reply[1].invoked[1].registry = "pubsub"
    /\ reply[1].response[1].result # <<>>

\* The service method that the request of task r invokes returns, or the
\* request invokes none.
Returns(r) == Server_handle_request(config, args[r].msg).response # <<>>

\* The task handling the i-th value received, once it is received.
ReqTasks(i) ==
    {r \in TasksOf("request") :
        Cardinality({q \in TasksOf("request") : q < r}) = i - 1}

\* C14: a response is pushed to the queue of its connection when, and only
\* when, the task of its request completes; and in every fair run in which
\* the clients send their values and no channel is closed, every value is
\* received and the response to every request whose handling returns is
\* written, whether or not the handling of an earlier request ever returns.
C14_ReaderDoesNotWait ==
    /\ [](\A c \in Conns : \A r \in SrvIds :
            Response(r) \in Range(enqueued[c]) <=>
                (IsRequest(r) /\ ConnOf(r) = c /\ fut_out[r] = <<Ok>>))
    /\ <>[](\/ \E c \in Conns : chan_closed[c]
            \/ \A i \in 1..Len(inbox) :
                  \E r \in ReqTasks(i) :
                      Returns(r) => Responses(r, ConnOf(r)) = 1)

\* The handling of the first request has not returned and never will; the
\* response to the second is on the wire.
C14_Witness ==
    \E r1, r2 \in TasksOf("request") :
        /\ r1 < r2
        /\ ConnOf(r1) = ConnOf(r2)
        /\ ~Returns(r1)
        /\ fut_out[r1] = <<>>
        /\ Responses(r2, ConnOf(r2)) = 1

\* The values of SrvMsgs that are answered with a result.
Served(msg) == msg.parses /\ msg.jsonrpc = "2.0" /\
               msg.method \in {<<"a", ".", "b">>, <<"b", ".", "b">>}

\* C19: on a running server, the task of a request ends only with Ok and
\* with its response pushed to the queue of its connection, the response
\* carrying an error and no result unless the request was served; a reader
\* and a writer end only with the error of a failed recv or send or of the
\* closed channel; and a reader that has not ended is receiving: it is
\* suspended in conn.recv(), or handing a request to spawn, and whenever it
\* is polled and a client has sent a value, it can receive it.
C19_ErrorsBecomeResponses ==
    /\ \A r \in TasksOf("request") :
          /\ cb_count[r] >= 1 => cb_res[r] = Completed(Ok)
          /\ fut_out[r] # <<>> =>
                /\ fut_out[r] = <<Ok>>
                /\ Response(r) \in Range(enqueued[ConnOf(r)])
                /\ ContentOf(r).id = IF args[r].msg.parses THEN <<args[r].msg.id>> ELSE <<>>
                /\ Served(args[r].msg) =>
                      ContentOf(r).result # <<>> /\ ContentOf(r).error = <<>>
                /\ ~Served(args[r].msg) =>
                      ContentOf(r).result = <<>> /\ ContentOf(r).error # <<>>
    /\ \A t \in TasksOf("reader") \cup TasksOf("writer") :
          cb_count[t] >= 1 => cb_res[t] = Completed(Err)
    /\ \A rd \in TasksOf("reader") :
          cb_count[rd] = 0 =>
              /\ pc[rd] \in {"select", "loop", "nr_push"}
              /\ (pc[rd] \in {"select", "loop"} /\ received < Len(inbox)) =>
                    ENABLED reader_recv(rd)

\* A value that is not a request and a request without a "." in its method
\* were received; both error responses are on the wire and the reader and
\* the writer of the connection are running.
C19_Witness ==
    \E r1, r2 \in TasksOf("request") : \E rd \in TasksOf("reader") :
        \E w \in TasksOf("writer") :
            /\ r1 < r2
            /\ ~args[r1].msg.parses
            /\ args[r2].msg.parses /\ args[r2].msg.method = <<"a">>
            /\ ConnOf(r1) = ConnOf(rd) /\ ConnOf(r2) = ConnOf(rd) /\ ConnOf(w) = ConnOf(rd)
            /\ Responses(r1, ConnOf(rd)) = 1
            /\ Responses(r2, ConnOf(rd)) = 1
            /\ cb_count[rd] = 0 /\ cb_count[w] = 0

\* C18: once the completion callback of a connection's writer or reader
\* has returned, whatever ended the task (a failed send, a failed recv, the
\* closed channel, or stop_signal), the connection's channel is closed; a
\* closed channel stays closed, and the callback of the other task of the
\* pair, closing it again, changes nothing of the connection.
C18_ChannelClosedOnExit ==
    /\ [](\A t \in TasksOf("writer") \cup TasksOf("reader") :
            (cb_count[t] >= 1 /\ pc[t] \notin {"cb_run"}) => chan_closed[ConnOf(t)])
    /\ [][\A c \in Conns :
            chan_closed[c] =>
                /\ chan_closed'[c]
                /\ (\E t \in SrvIds : pc[t] = "cb_run" /\ pc'[t] # "cb_run") =>
                      <<queue'[c], hand'[c], wire'[c], chan'[c]>> =
                      <<queue[c], hand[c], wire[c], chan[c]>>]_vars

\* The writer ended on a failed send, the reader was cancelled by shutdown,
\* the callback of each closed the channel and both have finished.
C18_Witness ==
    \E w \in TasksOf("writer") : \E rd \in TasksOf("reader") :
        /\ ConnOf(w) = ConnOf(rd)
        /\ fut_out[w] = <<Err>> /\ cb_res[w] = Completed(Err)
        /\ cb_res[rd] = Cancelled
        /\ Finished(w) /\ Finished(rd)
        /\ chan_closed[ConnOf(w)]
        /\ queue[ConnOf(w)] = <<>>

\* C20: a task that is still racing has not called its callback; a task
\* whose callback is running was given the outcome of its race, Cancelled
\* with no value of the future or Completed with that value, and has not
\* signalled; a task that has signalled has called its callback once and has
\* run to its end; and TaskHandler::cancel leaves its wait, to abort the
\* task, only for a task that has signalled and run to its end, so that no
\* task is ever dropped in its race or in its callback.
C20_HandlerStepOrder ==
    /\ [](\A t \in Created :
            /\ pc[t] \in {"select", "fut_spawn"} =>
                  cb_count[t] = 0 /\ cb_res[t] = NoResult /\ ~cancel_flag[t]
            /\ pc[t] \in {"cb_run", "cb_spawn"} =>
                  /\ cb_count[t] = 1
                  /\ ~cancel_flag[t]
                  /\ \/ cb_res[t] = Cancelled /\ fut_out[t] = <<>>
                     \/ fut_out[t] # <<>> /\ cb_res[t] = Completed(fut_out[t][1])
            /\ cancel_flag[t] => cb_count[t] = 1 /\ pc[t] = "done"
            /\ pc[t] # "dropped")
    /\ [][(cpc = "wait" /\ cpc' # "wait") =>
             /\ cancel_flag[cur]
             /\ pc[cur] = "done"
             /\ pc'[cur] = "done"]_vars

\* cancel() has cancelled a handler whose task lost the race, whose
\* callback then spawned another task before it returned, and which
\* signalled after that.
C20_Witness ==
    /\ cpc \in {"pop", "returned"}
    /\ \E h \in at_begin :
          /\ h \notin Range(tasks)
          /\ h # cur
          /\ args[h].cb = "spawn"
          /\ cb_res[h] = Cancelled
          /\ Finished(h)
          /\ \E n \in Created : parent[n] = h

Pushes == Cardinality({t \in DOMAIN pc : ~pushed[t] /\ pushed'[t]})
Pops == IF cpc = "pop" /\ cpc' = "wait" THEN 1 ELSE 0

\* C23: every step changes the length of the handler list by the pushes of
\* spawn less the pop of cancel(), so the list shrinks in the drain loop
\* only and a task that finishes leaves it as it is; a drain ends on an
\* empty list; hence until the first cancel() len() is the number of spawn
\* calls made, every handler pushed is in the list whether its task has
\* finished or not, is_empty() is false after the first spawn, and the
\* group of a Server holds the handler of every request task spawned.
C23_HandlersKeptUntilCancel ==
    /\ [][/\ Len(tasks') = Len(tasks) + Pushes - Pops
          /\ Len(tasks') < Len(tasks) => cpc = "pop"
          /\ (cpc = "pop" /\ cpc' = "returned") => tasks' = <<>>]_vars
    /\ [](cpc = "idle" =>
            /\ len = Cardinality({t \in Created : pushed[t]})
            /\ \A t \in Created : pushed[t] => Count(tasks, t) = 1
            /\ (\E t \in Created : pushed[t]) => ~is_empty
            /\ \A r \in TasksOf("request") : pushed[r] => r \in Range(tasks))

\* No shutdown yet: both requests have been answered, their tasks have
\* finished, and the group still holds five handlers, those of the two
\* request tasks among them.
C23_Witness ==
    /\ cpc = "idle"
    /\ len = 5
    /\ Cardinality({r \in TasksOf("request") : Finished(r) /\ r \in Range(tasks)}) = 2

\* The future of the reader of connection c has ended, with the error of
\* conn.recv() or cancelled.
ReaderExited(c) == \E r \in TasksOf("reader") : args[r].conn = c /\ cb_count[r] >= 1

\* The writer w is at its select and the step takes it out of it.
LeavesSelect(w) == pc[w] \in {"loop", "select"} /\ pc'[w] \notin {"loop", "select"}

\* C24: a reader that has run to its end has closed its connection's
\* channel; in every fair run the writer of a connection whose reader has
\* exited ends as well; a writer that selects with the channel closed, the
\* queue empty and the buffer drained ends there with the channel's error,
\* no send having failed, and it ends at its select in no other case; and
\* once the writer has ended nothing more is written to the connection,
\* and what a request task pushes to the queue after that stays in it.
C24_WriterFollowsReader ==
    /\ [](\A r \in TasksOf("reader") : pc[r] = "done" => chan_closed[args[r].conn])
    /\ \A c \in Conns : ReaderExited(c) ~> WriterEnded(c)
    /\ [][\A w \in TasksOf("writer") :
            LET c == args[w].conn IN
            /\ (/\ chan_closed[c] /\ queue[c] = <<>> /\ chan[c] = <<>>
                /\ pc[w] \in {"loop", "select"} /\ pc'[w] # pc[w]) =>
                  /\ pc'[w] = "cb_run"
                  /\ cb_res'[w] = Completed(Err)
                  /\ wire'[c] = wire[c]
            /\ (LeavesSelect(w) /\ pc'[w] = "cb_run") =>
                  chan_closed[c] /\ queue[c] = <<>> /\ chan[c] = <<>>
            /\ WriterEnded(c) =>
                  /\ wire'[c] = wire[c]
                  /\ hand'[c] = <<>>
                  /\ IsPrefix(queue[c], queue'[c])]_vars

\* The reader failed after its second message; the writer had written the
\* first response and a notification, found the channel closed with nothing
\* left to send and ended, no send having failed (nothing pushed or
\* published is missing); the second response was pushed after that and
\* is in the queue.
C24_Witness ==
    \E c \in Conns :
        /\ ReaderExited(c)
        /\ WriterEnded(c)
        /\ chan_closed[c]
        /\ \E r \in SrvIds : queue[c] = <<Response(r)>>
        /\ hand[c] = <<>>
        /\ chan[c] = <<>>
        /\ notified[c] >= 1
        /\ Len(NotificationsIn(wire[c])) = notified[c]
        /\ ResponsesIn(wire[c]) # <<>>
        /\ ResponsesIn(wire[c]) \o queue[c] = enqueued[c]

====
